---- MODULE Spec2Model ----
(***************************************************************************)
(* ECMWF preprocessing (ECMWF_preprocessing/ecmwf_clean.py): the monthly   *)
(* merge / normalise / split pipeline as state machines.                   *)
(*                                                                         *)
(*   SpecMerge   merge_accum_instant_pressure, statement by statement      *)
(*   SpecLevels  extract_pressure_levels                                   *)
(*   SpecUnits   apply_unit_conversions over a heap of dataset objects     *)
(*   SpecSelect  select_variables                                          *)
(*   SpecSplit   store_year_month_day_nc                                   *)
(*   Spec        main / process_month over the month directories           *)
(***************************************************************************)
EXTENDS Integers, Sequences, FiniteSets, TLC

VARIABLES
    \* merge_accum_instant_pressure
    mDir, mPc, mFiles, mCat, mOpen, mOpened, mErr,
    \* extract_pressure_levels
    lDs, lTargets, lPc, lOut, lWarnings,
    \* apply_unit_conversions
    uHeap, uCaller, uDs, uPc, uInput,
    \* select_variables
    sDs, sVarList, sPc, sOut, sWarnings, sErr,
    \* store_year_month_day_nc
    tEpoch, tTimes, tPc, tDays, tIdx, tFs,
    \* main and process_month
    gTree, gPreprocess, gTz, gFolders, gIdx, gPc, gDs, gMerged, gExc,
    gTrace, gAttempts, gLog, gDone, gFs, gFsAtStart

varsMerge == <<mDir, mPc, mFiles, mCat, mOpen, mOpened, mErr>>
varsLevels == <<lDs, lTargets, lPc, lOut, lWarnings>>
varsUnits == <<uHeap, uCaller, uDs, uPc, uInput>>
varsSelect == <<sDs, sVarList, sPc, sOut, sWarnings, sErr>>
varsSplit == <<tEpoch, tTimes, tPc, tDays, tIdx, tFs>>
varsMain == <<gTree, gPreprocess, gTz, gFolders, gIdx, gPc, gDs, gMerged, gExc,
              gTrace, gAttempts, gLog, gDone, gFs, gFsAtStart>>

vars == <<varsMerge, varsLevels, varsUnits, varsSelect, varsSplit, varsMain>>

\* What each function's steps leave alone: the state of the others.
notMerge == <<varsLevels, varsUnits, varsSelect, varsSplit, varsMain>>
notLevels == <<varsMerge, varsUnits, varsSelect, varsSplit, varsMain>>
notUnits == <<varsMerge, varsLevels, varsSelect, varsSplit, varsMain>>
notSelect == <<varsMerge, varsLevels, varsUnits, varsSplit, varsMain>>
notSplit == <<varsMerge, varsLevels, varsUnits, varsSelect, varsMain>>
notMain == <<varsMerge, varsLevels, varsUnits, varsSelect, varsSplit>>

(***************************************************************************)
(* Sequences and file names.  A file name is a sequence of characters.     *)
(***************************************************************************)
Range(s) == {s[i] : i \in 1..Len(s)}

UpperChars == <<"A","B","C","D","E","F","G","H","I","J","K","L","M",
                "N","O","P","Q","R","S","T","U","V","W","X","Y","Z">>
LowerChars == <<"a","b","c","d","e","f","g","h","i","j","k","l","m",
                "n","o","p","q","r","s","t","u","v","w","x","y","z">>

LowerCharKeep(c) == c

\* str.lower() on one character
LowerChar(c) ==
    IF \E i \in 1..Len(UpperChars) : UpperChars[i] = c
    THEN LowerChars[CHOOSE i \in 1..Len(UpperChars) : UpperChars[i] = c]
    ELSE c

\* name = f.name.lower()
Lower(name) == [i \in 1..Len(name) |-> LowerChar(name[i])]

\* Python's  marker in name
Contains(name, marker) ==
    \E i \in 1..(Len(name) - Len(marker) + 1) :
        SubSeq(name, i, i + Len(marker) - 1) = marker

EndsWith(name, suffix) ==
    /\ Len(name) >= Len(suffix)
    /\ SubSeq(name, Len(name) - Len(suffix) + 1, Len(name)) = suffix

PRESSURE == <<"p","r","e","s","s","u","r","e">>
ACCUM    == <<"a","c","c","u","m">>
INSTANT  == <<"i","n","s","t","a","n","t">>
DotNc    == <<".","n","c">>

\* month_dir.glob("*.nc") keeps the entries whose name ends in ".nc"
GlobNc(name) == EndsWith(name, DotNc)

\* The names a month directory may hold.
NamePressure == PRESSURE \o DotNc
NameAccumUp  == <<"E","R","A","5","_","A","C","C","U","M">> \o DotNc
NameAccum2   == ACCUM \o <<"2">> \o DotNc
NameInstant  == <<"I","n","s","t","a","n","t">> \o DotNc
NameBoth     == PRESSURE \o <<"_">> \o ACCUM \o <<"_","b","a","c","k","u","p">> \o DotNc
NameSingle   == <<"s","i","n","g","l","e">> \o DotNc
NameText     == INSTANT \o <<".","t","x","t">>

FileNames ==
    {NamePressure, NameAccumUp, NameAccum2, NameInstant, NameBoth, NameSingle, NameText}

\* The most entries of a modelled month directory.
MaxFiles == 4

\* Directory listings: sequences of distinct names, in the order the file
\* system yields them.
RECURSIVE Listings(_)
Listings(n) ==
    IF n = 0 THEN {<<>>}
    ELSE LET shorter == Listings(n - 1)
         IN shorter \cup
            {Append(s, f) : s \in {t \in shorter : Len(t) = n - 1},
                            f \in FileNames}

DistinctSeq(s) == \A i, j \in 1..Len(s) : i # j => s[i] # s[j]

DirListings == {s \in Listings(MaxFiles) : DistinctSeq(s)}

(***************************************************************************)
(* merge_accum_instant_pressure: file classification.                      *)
(***************************************************************************)
\* pressure_file = accum_file = instant_file = None
NoFile == <<>>

NoCats == [pressure |-> NoFile, accum |-> NoFile, instant |-> NoFile]

\* The loop body with three independent tests instead of if / elif / elif.
ClassifyStepIndependent(cat, f) ==
    LET name == Lower(f)
    IN [pressure |-> IF Contains(name, PRESSURE) THEN f ELSE cat.pressure,
        accum    |-> IF Contains(name, ACCUM)    THEN f ELSE cat.accum,
        instant  |-> IF Contains(name, INSTANT)  THEN f ELSE cat.instant]

\* One iteration of  for f in files:  the first marker found in the
\* lower-cased name decides, and the later assignment overwrites the earlier.
ClassifyStep(cat, f) ==
    LET name == Lower(f)
    IN IF Contains(name, PRESSURE) THEN [cat EXCEPT !.pressure = f]
       ELSE IF Contains(name, ACCUM) THEN [cat EXCEPT !.accum = f]
       ELSE IF Contains(name, INSTANT) THEN [cat EXCEPT !.instant = f]
       ELSE cat

RECURSIVE ClassifyFrom(_, _)
ClassifyFrom(cat, files) ==
    IF files = <<>> THEN cat
    ELSE ClassifyFrom(ClassifyStep(cat, Head(files)), Tail(files))

Classify(files) == ClassifyFrom(NoCats, files)

\* all([pressure_file, accum_file, instant_file])
AllFound(cat) ==
    /\ cat.pressure # NoFile
    /\ cat.accum # NoFile
    /\ cat.instant # NoFile

NoError == [kind |-> "none", found |-> <<>>]

\* files = list(month_dir.glob("*.nc"))
GlobFiles(dir) == SelectSeq(dir, GlobNc)

\* The two checks before any file is opened, as the error they raise.
ScanError(files) ==
    IF Len(files) = 0 THEN [kind |-> "FileNotFoundError", found |-> <<>>]
    ELSE IF ~AllFound(Classify(files))
         THEN [kind |-> "RuntimeError", found |-> files]
         ELSE NoError

(***************************************************************************)
(* merge_accum_instant_pressure, statement by statement.  mOpen holds the  *)
(* source handles that are open; xr.open_dataset, extract_pressure_levels, *)
(* xr.align and xr.merge may each raise.                                   *)
(***************************************************************************)
InitMerge ==
    /\ mDir \in DirListings
    /\ mPc = "scan"
    /\ mFiles = <<>>
    /\ mCat = NoCats
    /\ mOpen = {}
    /\ mOpened = {}
    /\ mErr = NoError

IdleMerge ==
    /\ mDir = <<>>
    /\ mPc = "idle"
    /\ mFiles = <<>>
    /\ mCat = NoCats
    /\ mOpen = {}
    /\ mOpened = {}
    /\ mErr = NoError

\* lines 195-219
MergeScan ==
    /\ mPc = "scan"
    /\ mFiles' = GlobFiles(mDir)
    /\ mCat' = IF Len(mFiles') = 0 THEN NoCats ELSE Classify(mFiles')
    /\ mErr' = ScanError(mFiles')
    /\ mPc' = IF mErr'.kind = "none" THEN "open_pres" ELSE "raised"
    /\ UNCHANGED <<mDir, mOpen, mOpened>>

\* A statement that raises: control leaves the function at once.
MergeRaise(kind) ==
    /\ mErr' = [kind |-> kind, found |-> <<>>]
    /\ mPc' = "raised"

MergeOpenOk(at, handle, next) ==
    /\ mPc = at
    /\ mOpen' = mOpen \cup {handle}
    /\ mOpened' = mOpened \cup {handle}
    /\ mPc' = next
    /\ UNCHANGED <<mDir, mFiles, mCat, mErr>>

MergeStepFails(at) ==
    /\ mPc = at
    /\ MergeRaise(IF at \in {"open_pres", "open_acc", "open_ins"}
                  THEN "OSError" ELSE "ValueError")
    /\ UNCHANGED <<mDir, mFiles, mCat, mOpen, mOpened>>

MergeStepOk(at, next) ==
    /\ mPc = at
    /\ mPc' = next
    /\ UNCHANGED <<mDir, mFiles, mCat, mOpen, mOpened, mErr>>

\* line 222
MergeOpenPressure == MergeOpenOk("open_pres", "ds_pres", "open_acc")
MergeOpenPressureFails == MergeStepFails("open_pres")
\* line 223
MergeOpenAccum == MergeOpenOk("open_acc", "ds_acc", "open_ins")
MergeOpenAccumFails == MergeStepFails("open_acc")
\* line 224
MergeOpenInstant == MergeOpenOk("open_ins", "ds_ins", "extract")
MergeOpenInstantFails == MergeStepFails("open_ins")
\* line 227
MergeExtract == MergeStepOk("extract", "align")
MergeExtractFails == MergeStepFails("extract")
\* line 230
MergeAlign == MergeStepOk("align", "merge")
MergeAlignFails == MergeStepFails("align")
\* line 233
MergeMerge == MergeStepOk("merge", "close")
MergeMergeFails == MergeStepFails("merge")

\* lines 235-239
MergeCloseReturn ==
    /\ mPc = "close"
    /\ mOpen' = mOpen \ {"ds_pres", "ds_acc", "ds_ins"}
    /\ mPc' = "returned"
    /\ UNCHANGED <<mDir, mFiles, mCat, mOpened, mErr>>

NextMerge ==
    \/ MergeScan /\ UNCHANGED notMerge
    \/ MergeOpenPressure /\ UNCHANGED notMerge
    \/ MergeOpenPressureFails /\ UNCHANGED notMerge
    \/ MergeOpenAccum /\ UNCHANGED notMerge
    \/ MergeOpenAccumFails /\ UNCHANGED notMerge
    \/ MergeOpenInstant /\ UNCHANGED notMerge
    \/ MergeOpenInstantFails /\ UNCHANGED notMerge
    \/ MergeExtract /\ UNCHANGED notMerge
    \/ MergeExtractFails /\ UNCHANGED notMerge
    \/ MergeAlign /\ UNCHANGED notMerge
    \/ MergeAlignFails /\ UNCHANGED notMerge
    \/ MergeMerge /\ UNCHANGED notMerge
    \/ MergeMergeFails /\ UNCHANGED notMerge
    \/ MergeCloseReturn /\ UNCHANGED notMerge

(***************************************************************************)
(* extract_pressure_levels.  A dataset is its data variables, in order,    *)
(* each with the axes it varies along, and the values of the               *)
(* pressure_level coordinate (in tenths of hPa, so that a fractional level *)
(* can be told from a whole one).  A slice of variable v at level index i  *)
(* is written <<v, i>>.                                                    *)
(***************************************************************************)
PL == "pressure_level"

SurfaceDims == {"valid_time", "latitude", "longitude"}

\* ds.dims: the axes of the variables and of the pressure_level coordinate
DsDims(ds) ==
    UNION {ds.vars[i].dims : i \in 1..Len(ds.vars)}
        \cup (IF Len(ds.levels) > 0 THEN {PL} ELSE {})

\* xr.Dataset(): no variables
EmptyDataset == [n \in {} |-> 0]

Abs(x) == IF x < 0 THEN -x ELSE x

\* .astype(int) of a non-negative level given in tenths: the fraction is cut
AsInt(tenths) == tenths \div 10

\* The last index of a smallest element.
ArgMinLast(s) ==
    CHOOSE i \in 1..Len(s) :
        /\ \A j \in 1..Len(s) : s[i] <= s[j]
        /\ \A j \in (i + 1)..Len(s) : s[j] > s[i]

\* np.argmin: the first index of a smallest element
ArgMin(s) ==
    CHOOSE i \in 1..Len(s) :
        /\ \A j \in 1..Len(s) : s[i] <= s[j]
        /\ \A j \in 1..(i - 1) : s[j] > s[i]

\* f"{var}{target}"
LevelName(var, target) == var \o ToString(target)

\* idx = np.argmin(np.abs(pl_vals - target))
NearestIdx(pl_vals, target) ==
    ArgMin([i \in 1..Len(pl_vals) |-> Abs(pl_vals[i] - target)])

\* ds[var].isel(pressure_level=idx).drop_vars(...).reset_coords(drop=True)
LevelSlice(v, idx) == [dims |-> v.dims \ {PL}, slice |-> <<v.name, idx>>]

\* The pressure-level variables of ds, in the order of ds.data_vars
PressureVars(ds) ==
    SelectSeq(ds.vars, LAMBDA v : PL \in v.dims)

\* The inner loop: new_vars[name] = ... for every target, a later
\* assignment to the same name replacing the earlier.
RECURSIVE TargetLoop(_, _, _, _)
TargetLoop(new_vars, v, pl_vals, targets) ==
    IF targets = <<>> THEN new_vars
    ELSE LET target == Head(targets)
             idx == NearestIdx(pl_vals, target)
             name == LevelName(v.name, target)
             rest == [n \in DOMAIN new_vars \ {name} |-> new_vars[n]]
         IN TargetLoop((name :> LevelSlice(v, idx)) @@ rest,
                       v, pl_vals, Tail(targets))

\* The outer loop: for var in pressure_vars
RECURSIVE VarLoop(_, _, _, _)
VarLoop(new_vars, pvars, pl_vals, targets) ==
    IF pvars = <<>> THEN new_vars
    ELSE VarLoop(TargetLoop(new_vars, Head(pvars), pl_vals, targets),
                 Tail(pvars), pl_vals, targets)

\* The warnings printed: one for each (var, target) whose nearest level is
\* not the target itself.
LevelWarnings(ds, targets) ==
    LET pl_vals == [i \in 1..Len(ds.levels) |-> AsInt(ds.levels[i])]
    IN IF PL \notin DsDims(ds) THEN {}
       ELSE {<<v.name, t, pl_vals[NearestIdx(pl_vals, t)]>> :
                v \in Range(PressureVars(ds)),
                t \in {u \in Range(targets) :
                         pl_vals[NearestIdx(pl_vals, u)] # u}}

extract_pressure_levels(ds, level_targets) ==
    IF PL \notin DsDims(ds) THEN EmptyDataset
    ELSE IF PressureVars(ds) = <<>> THEN EmptyDataset
    ELSE LET pl_vals == [i \in 1..Len(ds.levels) |-> AsInt(ds.levels[i])]
         IN VarLoop(EmptyDataset, PressureVars(ds), pl_vals, level_targets)

\* The default level_targets and the levels a file may hold (tenths of hPa).
DefaultTargets == <<1000, 850, 500>>
TargetValues == Range(DefaultTargets)
LevelValues == {5000, 8000, 8498, 8509, 9000, 10000}

\* The most levels of a modelled pressure_level axis, and the most targets
\* of a modelled request.
MaxLevels == 3
MaxTargets == 2

RECURSIVE SeqsUpTo(_, _)
SeqsUpTo(S, n) ==
    IF n = 0 THEN {<<>>}
    ELSE LET shorter == SeqsUpTo(S, n - 1)
         IN shorter \cup
            {Append(s, x) : s \in {t \in shorter : Len(t) = n - 1}, x \in S}

LevelAxes == {s \in SeqsUpTo(LevelValues, MaxLevels) : DistinctSeq(s)}

VarR == [name |-> "r", dims |-> SurfaceDims \cup {PL}]
VarQ == [name |-> "q", dims |-> SurfaceDims \cup {PL}]
VarT2m == [name |-> "t2m", dims |-> SurfaceDims]

LevelVarLists == {<<>>, <<VarT2m>>, <<VarR>>, <<VarR, VarT2m>>, <<VarQ, VarR>>}

LevelDatasets ==
    {ds \in [vars : LevelVarLists, levels : LevelAxes] :
        (PressureVars(ds) # <<>>) => Len(ds.levels) > 0}

InitLevels ==
    /\ lDs \in LevelDatasets
    /\ lTargets \in SeqsUpTo(TargetValues, MaxTargets) \cup {DefaultTargets}
    /\ lPc = "call"
    /\ lOut = EmptyDataset
    /\ lWarnings = {}

IdleLevels ==
    /\ lDs = [vars |-> <<>>, levels |-> <<>>]
    /\ lTargets = <<>>
    /\ lPc = "idle"
    /\ lOut = EmptyDataset
    /\ lWarnings = {}

ExtractPressureLevels ==
    /\ lPc = "call"
    /\ lOut' = extract_pressure_levels(lDs, lTargets)
    /\ lWarnings' = LevelWarnings(lDs, lTargets)
    /\ lPc' = "returned"
    /\ UNCHANGED <<lDs, lTargets>>

NextLevels == ExtractPressureLevels /\ UNCHANGED notLevels

(***************************************************************************)
(* apply_unit_conversions.  Here a dataset is a function from variable     *)
(* names to [value, units, GRIB_units], values in hundredths.  Datasets    *)
(* are objects on a heap: the caller and the function each hold a          *)
(* reference, and  ds = ds.copy()  rebinds the function's.                 *)
(***************************************************************************)
\* 273.15, in hundredths
KelvinOffset == 27315

TempVars == <<"t2m", "d2m">>
WindVars == <<"u10", "v10">>

\* ds[temp_var] = ds[temp_var] - 273.15, then both unit attributes
ConvertTemp(v) ==
    [value |-> v.value - KelvinOffset, units |-> "C", GRIB_units |-> "C"]

\* ds[wind_var] = ds[wind_var] * 3.6, then both unit attributes
ConvertWind(v) ==
    [value |-> (v.value * 36) \div 10, units |-> "km/h", GRIB_units |-> "km/h"]

\* One iteration of the first loop: if temp_var in ds.variables
TempStep(ds, name) ==
    IF name \in DOMAIN ds THEN [ds EXCEPT ![name] = ConvertTemp(ds[name])]
    ELSE ds

\* One iteration of the second loop: if wind_var in ds
WindStep(ds, name) ==
    IF name \in DOMAIN ds THEN [ds EXCEPT ![name] = ConvertWind(ds[name])]
    ELSE ds

\* The value returned, for a caller that only uses the result.
apply_unit_conversions(ds) ==
    WindStep(WindStep(TempStep(TempStep(ds, TempVars[1]), TempVars[2]),
                      WindVars[1]), WindVars[2])

\* ds = ds  (no copy): the function goes on with the caller's object.
AliasDataset(heap, ref) == [heap |-> heap, ref |-> ref]

\* ds.copy(): a new object with the same variables
CopyDataset(heap, ref) ==
    LET new == Cardinality(DOMAIN heap) + 1
    IN [heap |-> (new :> heap[ref]) @@ heap, ref |-> new]

Quantity(value, units) == [value |-> value, units |-> units, GRIB_units |-> units]

\* The variables an input may hold, each absent or with one of its values.
UnitInputs ==
    [t2m |-> {Quantity(30000, "K"), Quantity(27315, "K")},
     d2m |-> {Quantity(28015, "K")},
     u10 |-> {Quantity(1000, "m s**-1"), Quantity(-250, "m s**-1")},
     v10 |-> {Quantity(0, "m s**-1")},
     tp  |-> {Quantity(12, "m"), Quantity(0, "m")},
     sp  |-> {Quantity(10132500, "Pa")}]

UnitDatasets ==
    UNION {[names -> UNION {UnitInputs[n] : n \in names}] :
              names \in SUBSET DOMAIN UnitInputs}

WellTyped(ds) == \A n \in DOMAIN ds : ds[n] \in UnitInputs[n]

InitUnits ==
    /\ uInput \in {ds \in UnitDatasets : WellTyped(ds)}
    /\ uHeap = <<uInput>>
    /\ uCaller = 1
    /\ uDs = 1
    /\ uPc = "copy"

IdleUnits ==
    /\ uInput = EmptyDataset
    /\ uHeap = <<>>
    /\ uCaller = 0
    /\ uDs = 0
    /\ uPc = "idle"

\* line 108
UnitsCopy ==
    /\ uPc = "copy"
    /\ LET c == CopyDataset(uHeap, uDs)
       IN /\ uHeap' = c.heap
          /\ uDs' = c.ref
    /\ uPc' = "temp1"
    /\ UNCHANGED <<uCaller, uInput>>

UnitsLoopStep(at, Step(_, _), name, next) ==
    /\ uPc = at
    /\ uHeap' = [uHeap EXCEPT ![uDs] = Step(uHeap[uDs], name)]
    /\ uPc' = next
    /\ UNCHANGED <<uCaller, uDs, uInput>>

\* lines 111-115
UnitsTemp1 == UnitsLoopStep("temp1", TempStep, TempVars[1], "temp2")
UnitsTemp2 == UnitsLoopStep("temp2", TempStep, TempVars[2], "wind1")
\* lines 119-123
UnitsWind1 == UnitsLoopStep("wind1", WindStep, WindVars[1], "wind2")
UnitsWind2 == UnitsLoopStep("wind2", WindStep, WindVars[2], "return")

\* line 125
UnitsReturn ==
    /\ uPc = "return"
    /\ uPc' = "returned"
    /\ UNCHANGED <<uHeap, uCaller, uDs, uInput>>

NextUnits ==
    \/ UnitsCopy /\ UNCHANGED notUnits
    \/ UnitsTemp1 /\ UNCHANGED notUnits
    \/ UnitsTemp2 /\ UNCHANGED notUnits
    \/ UnitsWind1 /\ UNCHANGED notUnits
    \/ UnitsWind2 /\ UNCHANGED notUnits
    \/ UnitsReturn /\ UNCHANGED notUnits

(***************************************************************************)
(* select_variables.  Here a dataset is the axes of each data variable     *)
(* and of each coordinate.  `v in ds` looks v up among all the variables   *)
(* of the dataset, coordinates included (as ds.variables at line 112).     *)
(***************************************************************************)
DataVars(ds) == DOMAIN ds.data
Coords(ds) == DOMAIN ds.coords

\* v in ds
InDataset(ds, v) == v \in DataVars(ds) \cup Coords(ds)

\* present = [v for v in var_list if v in ds]
Present(ds, var_list) == SelectSeq(var_list, LAMBDA v : InDataset(ds, v))

\* missing = [v for v in var_list if v not in ds]
Missing(ds, var_list) == SelectSeq(var_list, LAMBDA v : ~InDataset(ds, v))

\* One print for each missing name.
SelectWarningsEach(missing) == [i \in 1..Len(missing) |-> <<missing[i]>>]

\* if missing: print(... {missing})
SelectWarnings(missing) == IF missing # <<>> THEN <<missing>> ELSE <<>>

\* if not present: raise ValueError
SelectError(present) == IF present = <<>> THEN "ValueError" ELSE "none"

\* ds[present]: the named variables, and every coordinate whose axes are
\* among the axes of the named variables
Subset(ds, names) ==
    LET picked == Range(names)
        dimsOf(n) == IF n \in DataVars(ds) THEN ds.data[n] ELSE ds.coords[n]
        needed == UNION {dimsOf(n) : n \in picked}
    IN [data |-> [n \in picked \cap DataVars(ds) |-> ds.data[n]],
        coords |-> [c \in {k \in Coords(ds) :
                              k \in picked \/ ds.coords[k] \subseteq needed}
                       |-> ds.coords[c]]]

NoDataset == [data |-> EmptyDataset, coords |-> EmptyDataset]

select_variables(ds, var_list) ==
    LET present == Present(ds, var_list)
        missing == Missing(ds, var_list)
        err == SelectError(present)
    IN [warnings |-> SelectWarnings(missing),
        err |-> err,
        out |-> IF err = "none" THEN Subset(ds, present) ELSE NoDataset]

\* The most names of a modelled request.
MaxRequest == 2

GridDims == {"valid_time", "latitude", "longitude"}

CoordDims ==
    [valid_time |-> {"valid_time"}, latitude |-> {"latitude"},
     longitude |-> {"longitude"}, number |-> {}]

SelectDatasets ==
    {[data |-> [n \in dv |-> GridDims], coords |-> [c \in cs |-> CoordDims[c]]] :
        dv \in SUBSET {"t2m", "u10", "tp"},
        cs \in {{}, {"number"}, {"latitude", "longitude"},
                {"valid_time", "latitude", "longitude"},
                {"valid_time", "latitude", "longitude", "number"}}}

RequestNames == {"t2m", "u10", "missing_var", "other_missing", "valid_time"}

InitSelect ==
    /\ sDs \in SelectDatasets
    /\ sVarList \in SeqsUpTo(RequestNames, MaxRequest)
    /\ sPc = "call"
    /\ sOut = NoDataset
    /\ sWarnings = <<>>
    /\ sErr = "none"

IdleSelect ==
    /\ sDs = NoDataset
    /\ sVarList = <<>>
    /\ sPc = "idle"
    /\ sOut = NoDataset
    /\ sWarnings = <<>>
    /\ sErr = "none"

SelectVariables ==
    /\ sPc = "call"
    /\ LET r == select_variables(sDs, sVarList)
       IN /\ sWarnings' = r.warnings
          /\ sErr' = r.err
          /\ sOut' = r.out
          /\ sPc' = IF r.err = "none" THEN "returned" ELSE "raised"
    /\ UNCHANGED <<sDs, sVarList>>

NextSelect == SelectVariables /\ UNCHANGED notSelect

(***************************************************************************)
(* store_year_month_day_nc.  A timestamp is a number of milliseconds since *)
(* 00:00 of an epoch date; dates are civil dates [y, m, d]; day strings,   *)
(* slice bounds and file names are sequences of characters.                *)
(***************************************************************************)
MinuteMs == 60 * 1000
HourMs == 60 * MinuteMs
DayMs == 24 * HourMs

IsLeap(y) == (y % 4 = 0 /\ y % 100 # 0) \/ y % 400 = 0

DaysInMonth(y, m) ==
    IF m = 2 THEN (IF IsLeap(y) THEN 29 ELSE 28)
    ELSE IF m \in {4, 6, 9, 11} THEN 30 ELSE 31

NextDay(dt) ==
    IF dt.d < DaysInMonth(dt.y, dt.m) THEN [dt EXCEPT !.d = dt.d + 1]
    ELSE IF dt.m < 12 THEN [y |-> dt.y, m |-> dt.m + 1, d |-> 1]
    ELSE [y |-> dt.y + 1, m |-> 1, d |-> 1]

\* The civil date n days after date dt
RECURSIVE DatePlus(_, _)
DatePlus(dt, n) == IF n = 0 THEN dt ELSE NextDay(DatePlus(dt, n - 1))

\* .dt.date of a timestamp
DateOfStamp(epoch, t) == DatePlus(epoch, t \div DayMs)

RECURSIVE DaysBeforeMonth(_, _)
DaysBeforeMonth(y, m) ==
    IF m = 1 THEN 0 ELSE DaysBeforeMonth(y, m - 1) + DaysInMonth(y, m - 1)

\* The day number of a civil date in the proleptic Gregorian calendar
Ordinal(dt) ==
    LET p == dt.y - 1
    IN 365 * p + (p \div 4) - (p \div 100) + (p \div 400)
         + DaysBeforeMonth(dt.y, dt.m) + dt.d

DigitChars == <<"0", "1", "2", "3", "4", "5", "6", "7", "8", "9">>

\* strftime of a number in a field of w digits, zero padded
RECURSIVE Pad(_, _)
Pad(n, w) ==
    IF w = 0 THEN <<>> ELSE Append(Pad(n \div 10, w - 1), DigitChars[(n % 10) + 1])

DigitValue(c) == (CHOOSE i \in 1..10 : DigitChars[i] = c) - 1

RECURSIVE ParseInt(_)
ParseInt(s) ==
    IF s = <<>> THEN 0
    ELSE 10 * ParseInt(SubSeq(s, 1, Len(s) - 1)) + DigitValue(s[Len(s)])

\* day.strftime("%Y-%m-%d")
DayStr(dt) == Pad(dt.y, 4) \o <<"-">> \o Pad(dt.m, 2) \o <<"-">> \o Pad(dt.d, 2)

T0000 == <<"T", "0", "0", ":", "0", "0">>
T2359 == <<"T", "2", "3", ":", "5", "9">>

\* A bound "YYYY-MM-DDTHH:MM" read back as the first millisecond of its minute
ParseBound(epoch, s) ==
    LET dt == [y |-> ParseInt(SubSeq(s, 1, 4)),
               m |-> ParseInt(SubSeq(s, 6, 7)),
               d |-> ParseInt(SubSeq(s, 9, 10))]
    IN (Ordinal(dt) - Ordinal(epoch)) * DayMs
         + ParseInt(SubSeq(s, 12, 13)) * HourMs
         + ParseInt(SubSeq(s, 15, 16)) * MinuteMs

\* The right bound taken as the instant HH:MM:00.000 itself.
SliceEndExact(epoch, s) == ParseBound(epoch, s)

\* The left bound of a label slice: the start of the minute named
SliceStart(epoch, s) == ParseBound(epoch, s)

\* The right bound of a label slice: a string with minute resolution stands
\* for the whole minute, so the bound is the minute's last instant
SliceEnd(epoch, s) == ParseBound(epoch, s) + MinuteMs - 1

\* ds.sel(valid_time=slice(f"{day_str}T00:00", f"{day_str}T23:59"))
DaySel(epoch, times, dt) ==
    LET lo == SliceStart(epoch, DayStr(dt) \o T0000)
        hi == SliceEnd(epoch, DayStr(dt) \o T2359)
    IN SelectSeq(times, LAMBDA t : lo <= t /\ t <= hi)

\* np.unique(ds["valid_time"].dt.date): the distinct dates, ascending
RECURSIVE UniqueDays(_, _)
UniqueDays(epoch, times) ==
    IF times = <<>> THEN <<>>
    ELSE LET first == CHOOSE t \in Range(times) : \A u \in Range(times) : t <= u
             dt == DateOfStamp(epoch, first)
         IN <<dt>> \o UniqueDays(epoch,
                SelectSeq(times, LAMBDA t : DateOfStamp(epoch, t) # dt))

\* outdir / f"{year}{month}{date}.nc" under base
OutFile(dt) ==
    <<Pad(dt.y, 4), Pad(dt.m, 2),
      Pad(dt.y, 4) \o Pad(dt.m, 2) \o Pad(dt.d, 2) \o DotNc>>

\* One iteration of  for day in unique_days  on the files fs
WriteDay(fs, epoch, times, dt) ==
    LET day_ds == DaySel(epoch, times, dt)
    IN IF Len(day_ds) = 0 THEN fs
       ELSE (OutFile(dt) :> day_ds)
              @@ [p \in DOMAIN fs \ {OutFile(dt)} |-> fs[p]]

RECURSIVE WriteDays(_, _, _, _)
WriteDays(fs, epoch, times, days) ==
    IF days = <<>> THEN fs
    ELSE WriteDays(WriteDay(fs, epoch, times, Head(days)), epoch, times, Tail(days))

\* The files after a call that raises nowhere
store_year_month_day_nc(fs, epoch, times) ==
    WriteDays(fs, epoch, times, UniqueDays(epoch, times))

NoFiles == [p \in {} |-> <<>>]

\* The most days a modelled dataset spans and the most timestamps it holds.
MaxDays == 3
MaxStamps == 3

Epochs ==
    {[y |-> 2023, m |-> 1, d |-> 30],
     [y |-> 2024, m |-> 2, d |-> 28],
     [y |-> 2023, m |-> 12, d |-> 30]}

\* 00:00, 01:00, 23:59:00 and 23:59:59.999
TimesOfDay == {0, HourMs, 23 * HourMs + 59 * MinuteMs, DayMs - 1}

Stamps == {k * DayMs + t : k \in 0..(MaxDays - 1), t \in TimesOfDay}

\* Time axes: increasing sequences of timestamps
RECURSIVE TimeAxes(_)
TimeAxes(n) ==
    IF n = 0 THEN {<<>>}
    ELSE LET shorter == TimeAxes(n - 1)
         IN shorter \cup
            {Append(s, t) : s \in {u \in shorter : Len(u) = n - 1},
                            t \in Stamps}

Increasing(s) == \A i \in 1..(Len(s) - 1) : s[i] < s[i + 1]

InitSplit ==
    /\ tEpoch \in Epochs
    /\ tTimes \in {s \in TimeAxes(MaxStamps) : Increasing(s)}
    /\ tPc = "start"
    /\ tDays = <<>>
    /\ tIdx = 0
    /\ tFs = NoFiles

IdleSplit ==
    /\ tEpoch = [y |-> 1970, m |-> 1, d |-> 1]
    /\ tTimes = <<>>
    /\ tPc = "idle"
    /\ tDays = <<>>
    /\ tIdx = 0
    /\ tFs = NoFiles

\* lines 153-158
SplitStart ==
    /\ tPc = "start"
    /\ tDays' = UniqueDays(tEpoch, tTimes)
    /\ tIdx' = 1
    /\ tPc' = "loop"
    /\ UNCHANGED <<tEpoch, tTimes, tFs>>

\* lines 160-176, one iteration
SplitDay ==
    /\ tPc = "loop"
    /\ tIdx <= Len(tDays)
    /\ tFs' = WriteDay(tFs, tEpoch, tTimes, tDays[tIdx])
    /\ tIdx' = tIdx + 1
    /\ UNCHANGED <<tEpoch, tTimes, tPc, tDays>>

\* line 176 raises: the day's file cannot be written
SplitDayFails ==
    /\ tPc = "loop"
    /\ tIdx <= Len(tDays)
    /\ tPc' = "raised"
    /\ UNCHANGED <<tEpoch, tTimes, tDays, tIdx, tFs>>

\* the loop is exhausted
SplitReturn ==
    /\ tPc = "loop"
    /\ tIdx > Len(tDays)
    /\ tPc' = "returned"
    /\ UNCHANGED <<tEpoch, tTimes, tDays, tIdx, tFs>>

NextSplit ==
    \/ SplitStart /\ UNCHANGED notSplit
    \/ SplitDay /\ UNCHANGED notSplit
    \/ SplitDayFails /\ UNCHANGED notSplit
    \/ SplitReturn /\ UNCHANGED notSplit

(***************************************************************************)
(* find_year_month_folders.  The tree under base_dir is a set of entries   *)
(* base_dir/<year>/<month>, each a directory or a plain file; names are    *)
(* sequences of characters.                                                *)
(***************************************************************************)
IsDigit(c) == \E i \in 1..10 : DigitChars[i] = c

\* glob("[0-9][0-9][0-9][0-9]")
GlobYear(name) == Len(name) = 4 /\ \A i \in 1..4 : IsDigit(name[i])

\* glob("[0-1][0-9]")
GlobMonth(name) ==
    /\ Len(name) = 2
    /\ name[1] \in {"0", "1"}
    /\ IsDigit(name[2])

\* a < b for strings of digits, character by character
RECURSIVE LexLess(_, _)
LexLess(a, b) ==
    IF b = <<>> THEN FALSE
    ELSE IF a = <<>> THEN TRUE
    ELSE IF Head(a) # Head(b) THEN DigitValue(Head(a)) < DigitValue(Head(b))
    ELSE LexLess(Tail(a), Tail(b))

\* The names in the order the file system happens to yield them.
RECURSIVE Unsorted(_)
Unsorted(S) ==
    IF S = {} THEN <<>>
    ELSE LET x == CHOOSE y \in S : \A z \in S \ {y} : LexLess(z, y)
         IN <<x>> \o Unsorted(S \ {x})

\* sorted(...) of a set of names
RECURSIVE Sorted(_)
Sorted(S) ==
    IF S = {} THEN <<>>
    ELSE LET x == CHOOSE y \in S : \A z \in S \ {y} : LexLess(y, z)
         IN <<x>> \o Sorted(S \ {x})

\* The inner loop for one year_dir
MonthsOf(tree, year) ==
    LET names == {e.month : e \in {f \in tree : f.year = year /\ GlobMonth(f.month)}}
        isDir(mo) == \E e \in tree : e.year = year /\ e.month = mo /\ e.isDir
        ordered == Sorted(names)
    IN [i \in 1..Len(ordered) |-> [year |-> year, month |-> ordered[i]]]

RECURSIVE YearLoop(_, _)
YearLoop(tree, years) ==
    IF years = <<>> THEN <<>>
    ELSE SelectSeq(MonthsOf(tree, Head(years)),
                   LAMBDA p : \E e \in tree :
                       e.year = p.year /\ e.month = p.month /\ e.isDir)
           \o YearLoop(tree, Tail(years))

find_year_month_folders(tree) ==
    YearLoop(tree, Sorted({e.year : e \in {f \in tree : GlobYear(f.year)}}))

(***************************************************************************)
(* ensure_valid_time and convert_valid_time_timezone.  In main and         *)
(* process_month a dataset is [data, coords, datetime, vals, times]: the   *)
(* axes of its data variables and coordinates, the coordinates of          *)
(* date/time type, the values of the data variables and the time axis.     *)
(***************************************************************************)
RenameDims(dims, old, new) ==
    IF old \in dims THEN (dims \ {old}) \cup {new} ELSE dims

RenameKeys(f, old, new) ==
    [k \in {IF n = old THEN new ELSE n : n \in DOMAIN f} |->
        RenameDims(f[IF k = new /\ old \in DOMAIN f THEN old ELSE k], old, new)]

\* ds.rename({old: 'valid_time'})
Rename(ds, old, new) ==
    [ds EXCEPT !.data = RenameKeys(ds.data, old, new),
               !.coords = RenameKeys(ds.coords, old, new),
               !.datetime = {IF n = old THEN new ELSE n : n \in ds.datetime}]

ensure_valid_time(ds) ==
    IF "valid_time" \in DOMAIN ds.coords THEN [err |-> "none", ds |-> ds]
    ELSE IF "time" \in DOMAIN ds.data \cup DOMAIN ds.coords
         THEN [err |-> "none", ds |-> Rename(ds, "time", "valid_time")]
    ELSE IF \E c \in DOMAIN ds.coords : c \in ds.datetime
         THEN [err |-> "none",
               ds |-> Rename(ds, CHOOSE c \in DOMAIN ds.coords : c \in ds.datetime,
                             "valid_time")]
    ELSE [err |-> "Dataset has no time coordinate", ds |-> ds]

convert_valid_time_timezone(ds, h_shift) ==
    IF "valid_time" \notin DOMAIN ds.coords THEN ds
    ELSE [ds EXCEPT !.times = [i \in 1..Len(ds.times) |->
                                   ds.times[i] + h_shift * HourMs]]

(***************************************************************************)
(* main and process_month.                                                 *)
(***************************************************************************)
\* config["sources"]["ecmwf"]["vars"]
ConfigVars == <<"t2m", "u10">>

\* The epoch the timestamps of the modelled files count from.
FileEpoch == [y |-> 2023, m |-> 1, d |-> 30]

Grid(t) == {t, "latitude", "longitude"}

Merged(names, axis, isTime, times) ==
    [data |-> [n \in names |-> IF axis = "" THEN Grid("latitude") ELSE Grid(axis)],
     coords |-> [c \in (IF axis = "" THEN {} ELSE {axis}) \cup {"latitude", "longitude"}
                   |-> {c}],
     datetime |-> IF isTime THEN {axis} ELSE {},
     vals |-> [n \in names |-> CHOOSE q \in UnitInputs[n] : TRUE],
     times |-> times]

TwoDays == <<2 * DayMs - HourMs, 2 * DayMs, 2 * DayMs + HourMs>>

\* What the three files of a month may merge to.
MergedDatasets ==
    {Merged({"t2m", "u10", "tp"}, "valid_time", TRUE, TwoDays),
     Merged({"t2m", "tp"}, "valid_time", TRUE, TwoDays),
     Merged({"sp"}, "valid_time", TRUE, TwoDays),
     Merged({"t2m", "u10"}, "time", TRUE, TwoDays),
     Merged({"t2m", "u10"}, "date", TRUE, TwoDays),
     Merged({"t2m", "u10"}, "step", FALSE, <<>>),
     Merged({"t2m", "u10"}, "", FALSE, <<>>)}

\* What a month directory may list.
MonthListings ==
    {<<>>, <<NameText>>, <<NamePressure, NameInstant>>,
     <<NameBoth, NameInstant>>, <<NameInstant, NamePressure, NameAccumUp>>}

NoDs == [data |-> EmptyDataset, coords |-> EmptyDataset, datetime |-> {},
         vals |-> EmptyDataset, times |-> <<>>]

\* The text of the exception a failed scan raises
ScanMessage(err) ==
    IF err.kind = "FileNotFoundError" THEN "No .nc files in month_dir"
    ELSE "Missing required ECMWF files in month_dir"

\* The most entries of a modelled tree under base_dir.
MaxEntries == 2

Chars2(a, b) == <<a, b>>
Chars4(a, b, c, d) == <<a, b, c, d>>

Entry(year, month, isDir) == [year |-> year, month |-> month, isDir |-> isDir]

TreeEntries ==
    {Entry(Chars4("2","0","2","2"), Chars2("1","2"), TRUE),
     Entry(Chars4("2","0","2","3"), Chars2("0","1"), TRUE),
     Entry(Chars4("2","0","2","3"), Chars2("0","2"), TRUE),
     Entry(Chars4("2","0","2","3"), Chars2("1","0"), TRUE),
     Entry(Chars4("1","9","9","9"), Chars2("1","1"), TRUE),
     Entry(Chars4("2","0","2","3"), Chars2("0","3"), FALSE),
     Entry(Chars4("2","0","2","3"), Chars2("2","0"), TRUE),
     Entry(<<"2","0","2">>, Chars2("0","1"), TRUE),
     Entry(Chars4("d","a","t","a"), Chars2("0","1"), TRUE)}

InitMain ==
    /\ gTree \in {t \in SUBSET TreeEntries : Cardinality(t) <= MaxEntries}
    /\ gPreprocess \in BOOLEAN
    /\ gTz \in {0, 8}
    /\ gFolders = <<>>
    /\ gIdx = 0
    /\ gPc = "main"
    /\ gDs = NoDs
    /\ gMerged = NoDs
    /\ gExc = "none"
    /\ gTrace = <<>>
    /\ gAttempts = <<>>
    /\ gLog = <<>>
    /\ gDone = <<>>
    /\ gFs = NoFiles
    /\ gFsAtStart = NoFiles

\* lines 283-294
MainFind ==
    /\ gPc = "main"
    /\ gFolders' = IF gPreprocess THEN find_year_month_folders(gTree) ELSE <<>>
    /\ gIdx' = 1
    /\ gPc' = IF gFolders' = <<>> THEN "end" ELSE "next"
    /\ UNCHANGED <<gTree, gPreprocess, gTz, gDs, gMerged, gExc, gTrace,
                   gAttempts, gLog, gDone, gFs, gFsAtStart>>

\* lines 296-298 and 249: the next month_dir is handed to process_month
MonthBegin ==
    /\ gPc = "next"
    /\ gIdx <= Len(gFolders)
    /\ gAttempts' = Append(gAttempts, gFolders[gIdx])
    /\ gTrace' = <<>>
    /\ gDs' = NoDs
    /\ gMerged' = NoDs
    /\ gExc' = "none"
    /\ gFsAtStart' = gFs
    /\ gPc' = "merge"
    /\ UNCHANGED <<gTree, gPreprocess, gTz, gFolders, gIdx, gLog, gDone, gFs>>

\* An exception leaves process_month for the handler in main.
Raise(message) ==
    /\ gExc' = message
    /\ gPc' = "except"

mainFrame == <<gTree, gPreprocess, gTz, gFolders, gIdx, gAttempts, gLog, gDone,
              gFsAtStart>>

\* line 251, the scan of the directory raises
MonthMergeScanFails ==
    /\ gPc = "merge"
    /\ \E dir \in MonthListings :
          LET err == ScanError(GlobFiles(dir))
          IN /\ err.kind # "none"
             /\ Raise(ScanMessage(err))
    /\ gTrace' = Append(gTrace, "Merging")
    /\ UNCHANGED <<mainFrame, gDs, gMerged, gFs>>

\* line 251, opening, aligning or merging the files raises
MonthMergeFails ==
    /\ gPc = "merge"
    /\ \E dir \in MonthListings : ScanError(GlobFiles(dir)).kind = "none"
    /\ Raise("cannot read file")
    /\ gTrace' = Append(gTrace, "Merging")
    /\ UNCHANGED <<mainFrame, gDs, gMerged, gFs>>

\* line 251 returns the merged dataset
MonthMerge ==
    /\ gPc = "merge"
    /\ \E dir \in MonthListings : ScanError(GlobFiles(dir)).kind = "none"
    /\ gDs' \in MergedDatasets
    /\ gMerged' = gDs'
    /\ gTrace' = Append(gTrace, "Merging")
    /\ gPc' = "units"
    /\ UNCHANGED <<mainFrame, gExc, gFs>>

\* line 253
MonthUnits ==
    /\ gPc = "units"
    /\ gDs' = [gDs EXCEPT !.vals = apply_unit_conversions(gDs.vals)]
    /\ gTrace' = Append(gTrace, "UnitConverting")
    /\ gPc' = "tz"
    /\ UNCHANGED <<mainFrame, gMerged, gExc, gFs>>

\* lines 256-258: the shift is applied only when it is not zero
MonthTimezone ==
    /\ gPc = "tz"
    /\ gDs' = IF gTz # 0 THEN convert_valid_time_timezone(gDs, gTz) ELSE gDs
    /\ gTrace' = IF gTz # 0 THEN Append(gTrace, "TimeNormalizing") ELSE gTrace
    /\ gPc' = "select"
    /\ UNCHANGED <<mainFrame, gMerged, gExc, gFs>>

Selection == select_variables([data |-> gDs.data, coords |-> gDs.coords], ConfigVars)

\* lines 260-261, select_variables raises
MonthSelectFails ==
    /\ gPc = "select"
    /\ Selection.err # "none"
    /\ Raise("No requested variables are present in dataset after merge.")
    /\ gTrace' = Append(gTrace, "Selecting")
    /\ UNCHANGED <<mainFrame, gDs, gMerged, gFs>>

\* lines 260-261
MonthSelect ==
    /\ gPc = "select"
    /\ Selection.err = "none"
    /\ gDs' = [data |-> Selection.out.data,
               coords |-> Selection.out.coords,
               datetime |-> gDs.datetime \cap DOMAIN Selection.out.coords,
               vals |-> [n \in DOMAIN Selection.out.data |-> gDs.vals[n]],
               times |-> gDs.times]
    /\ gTrace' = Append(gTrace, "Selecting")
    /\ gPc' = "store"
    /\ UNCHANGED <<mainFrame, gMerged, gExc, gFs>>

HasValidTime(ds) == "valid_time" \in DOMAIN ds.data \cup DOMAIN ds.coords

\* lines 263-267, ds["valid_time"] at line 157 raises KeyError
MonthStoreNoTime ==
    /\ gPc = "store"
    /\ ~HasValidTime(gDs)
    /\ Raise("KeyError: valid_time")
    /\ gTrace' = Append(gTrace, "Splitting")
    /\ UNCHANGED <<mainFrame, gDs, gMerged, gFs>>

\* lines 263-267, to_netcdf raises at one of the days, the earlier days written
MonthStoreFails ==
    /\ gPc = "store"
    /\ HasValidTime(gDs)
    /\ LET days == UniqueDays(FileEpoch, gDs.times)
       IN \E k \in 1..Len(days) :
             gFs' = WriteDays(gFs, FileEpoch, gDs.times, SubSeq(days, 1, k - 1))
    /\ Raise("cannot write file")
    /\ gTrace' = Append(gTrace, "Splitting")
    /\ UNCHANGED <<mainFrame, gDs, gMerged>>

\* lines 263-267
MonthStore ==
    /\ gPc = "store"
    /\ HasValidTime(gDs)
    /\ gFs' = store_year_month_day_nc(gFs, FileEpoch, gDs.times)
    /\ gTrace' = Append(gTrace, "Splitting")
    /\ gPc' = "close"
    /\ UNCHANGED <<mainFrame, gDs, gMerged, gExc>>

\* The loop breaks off at the first failure.
AfterExceptBreak(idx, n) == n + 1

\* continue: on to the next month_dir
AfterExcept(idx, n) == idx + 1

\* line 269, and the loop goes on
MonthClose ==
    /\ gPc = "close"
    /\ gTrace' = Append(gTrace, "Done")
    /\ gDone' = Append(gDone, gFolders[gIdx])
    /\ gIdx' = gIdx + 1
    /\ gPc' = "next"
    /\ UNCHANGED <<gTree, gPreprocess, gTz, gFolders, gDs, gMerged, gExc,
                   gAttempts, gLog, gFs, gFsAtStart>>

\* lines 299-301
MainExcept ==
    /\ gPc = "except"
    /\ gLog' = Append(gLog, [month |-> gFolders[gIdx], cause |-> gExc])
    /\ gIdx' = AfterExcept(gIdx, Len(gFolders))
    /\ gPc' = "next"
    /\ UNCHANGED <<gTree, gPreprocess, gTz, gFolders, gDs, gMerged, gExc,
                   gTrace, gAttempts, gDone, gFs, gFsAtStart>>

\* line 303
MainEnd ==
    /\ gPc = "next"
    /\ gIdx > Len(gFolders)
    /\ gPc' = "end"
    /\ UNCHANGED <<gTree, gPreprocess, gTz, gFolders, gIdx, gDs, gMerged, gExc,
                   gTrace, gAttempts, gLog, gDone, gFs, gFsAtStart>>

IdleMain ==
    /\ gTree = {}
    /\ gPreprocess = FALSE
    /\ gTz = 0
    /\ gFolders = <<>>
    /\ gIdx = 0
    /\ gPc = "idle"
    /\ gDs = NoDs
    /\ gMerged = NoDs
    /\ gExc = "none"
    /\ gTrace = <<>>
    /\ gAttempts = <<>>
    /\ gLog = <<>>
    /\ gDone = <<>>
    /\ gFs = NoFiles
    /\ gFsAtStart = NoFiles

Next ==
    \/ MainFind /\ UNCHANGED notMain
    \/ MonthBegin /\ UNCHANGED notMain
    \/ MonthMergeScanFails /\ UNCHANGED notMain
    \/ MonthMergeFails /\ UNCHANGED notMain
    \/ MonthMerge /\ UNCHANGED notMain
    \/ MonthUnits /\ UNCHANGED notMain
    \/ MonthTimezone /\ UNCHANGED notMain
    \/ MonthSelectFails /\ UNCHANGED notMain
    \/ MonthSelect /\ UNCHANGED notMain
    \/ MonthStoreNoTime /\ UNCHANGED notMain
    \/ MonthStoreFails /\ UNCHANGED notMain
    \/ MonthStore /\ UNCHANGED notMain
    \/ MonthClose /\ UNCHANGED notMain
    \/ MainExcept /\ UNCHANGED notMain
    \/ MainEnd /\ UNCHANGED notMain

(***************************************************************************)
(* The specifications.                                                     *)
(***************************************************************************)
InitSpecMerge ==
    InitMerge /\ IdleLevels /\ IdleUnits /\ IdleSelect /\ IdleSplit /\ IdleMain
SpecMerge == InitSpecMerge /\ [][NextMerge]_vars

InitSpecLevels ==
    IdleMerge /\ InitLevels /\ IdleUnits /\ IdleSelect /\ IdleSplit /\ IdleMain
SpecLevels == InitSpecLevels /\ [][NextLevels]_vars

InitSpecUnits ==
    IdleMerge /\ IdleLevels /\ InitUnits /\ IdleSelect /\ IdleSplit /\ IdleMain
SpecUnits == InitSpecUnits /\ [][NextUnits]_vars

InitSpecSelect ==
    IdleMerge /\ IdleLevels /\ IdleUnits /\ InitSelect /\ IdleSplit /\ IdleMain
SpecSelect == InitSpecSelect /\ [][NextSelect]_vars

InitSpecSplit ==
    IdleMerge /\ IdleLevels /\ IdleUnits /\ IdleSelect /\ InitSplit /\ IdleMain
SpecSplit == InitSpecSplit /\ [][NextSplit]_vars

Init ==
    IdleMerge /\ IdleLevels /\ IdleUnits /\ IdleSelect /\ IdleSplit /\ InitMain
Spec == Init /\ [][Next]_vars

(***************************************************************************)
(* Claims about merge_accum_instant_pressure (SpecMerge).                  *)
(***************************************************************************)
MergeLeft == mPc \in {"returned", "raised"}

\* C3: whenever control has left merge_accum_instant_pressure, by return or
\* by an exception, no source dataset handle that was opened is still open.
C3_HandlesReleasedOnExit == MergeLeft => mOpen = {}

\* Case-insensitive substring test, letter by letter.
SameLetter(a, b) ==
    \/ a = b
    \/ \E i \in 1..Len(UpperChars) : {a, b} = {UpperChars[i], LowerChars[i]}

HasMarker(f, marker) ==
    \E i \in 1..(Len(f) - Len(marker) + 1) :
        \A k \in 1..Len(marker) : SameLetter(f[i + k - 1], marker[k])

Markers == [pressure |-> PRESSURE, accum |-> ACCUM, instant |-> INSTANT]
Categories == {"pressure", "accum", "instant"}

\* The category a name is classified to: its first marker in the order
\* pressure, accum, instant.
CategoryOf(f) ==
    IF HasMarker(f, PRESSURE) THEN "pressure"
    ELSE IF HasMarker(f, ACCUM) THEN "accum"
    ELSE IF HasMarker(f, INSTANT) THEN "instant"
    ELSE "none"

NcEntries == {mDir[i] : i \in {j \in 1..Len(mDir) :
                 SubSeq(mDir[j], Len(mDir[j]) - 2, Len(mDir[j])) = <<".", "n", "c">>}}

ScanOutcome(unfilled) ==
    /\ NcEntries = {} =>
          /\ mPc = "raised"
          /\ mErr.kind = "FileNotFoundError"
          /\ mOpened = {}
    /\ (NcEntries # {} /\ unfilled) =>
          /\ mPc = "raised"
          /\ mErr.kind = "RuntimeError"
          /\ Range(mErr.found) = NcEntries
          /\ mOpened = {}
    /\ (NcEntries # {} /\ ~unfilled) =>
          mErr.kind \notin {"FileNotFoundError", "RuntimeError"}

\* C4 as stated: after the scan, FileNotFoundError exactly when the
\* directory has no .nc file, else RuntimeError naming the files found exactly
\* when some marker is contained in no file name; nothing was opened in either
\* case, and neither error when every marker is contained in some name.
C4_ErrorIffMarkerUnmatched ==
    mPc # "scan" =>
        ScanOutcome(\E c \in Categories :
                        \A f \in NcEntries : ~HasMarker(f, Markers[c]))

\* C4 amended: the same, with a category counted as matched only by a file
\* whose first marker (in the order pressure, accum, instant) is that
\* category's.
C4_ErrorIffCategoryUnfilled ==
    mPc # "scan" =>
        ScanOutcome(\E c \in Categories :
                        \A f \in NcEntries : CategoryOf(f) # c)

\* C4 witness: each outcome's case, here the RuntimeError raised although
\* every marker occurs in some file name.
C4_Witness ==
    /\ mPc = "raised"
    /\ mErr.kind = "RuntimeError"
    /\ Len(mErr.found) >= 2
    /\ \A c \in Categories : \E f \in NcEntries : HasMarker(f, Markers[c])

MultiMarker(f) ==
    Cardinality({c \in Categories : HasMarker(f, Markers[c])}) >= 2

Classified == mPc # "scan" /\ Len(mFiles) > 0

\* C10 as stated: a file is taken as the file of every category whose marker
\* its name contains (unless a later file of the listing contains that marker).
C10_FileFillsEveryMatchingCategory ==
    Classified =>
        \A i \in 1..Len(mFiles) : \A c \in Categories :
            ( /\ HasMarker(mFiles[i], Markers[c])
              /\ \A j \in (i + 1)..Len(mFiles) : ~HasMarker(mFiles[j], Markers[c]) )
            => mCat[c] = mFiles[i]

\* C10 amended: a file whose name contains several markers is taken for one
\* category only, the first of pressure, accum, instant that its name contains;
\* no file fills two categories.
C10_FileFillsFirstCategoryOnly ==
    Classified =>
        /\ \A f \in Range(mFiles) : \A c \in Categories :
               mCat[c] = f => c = CategoryOf(f)
        /\ \A c, d \in Categories :
               (c # d /\ mCat[c] # NoFile) => mCat[c] # mCat[d]

\* C10 witness: a file with two markers has been classified.
C10_Witness ==
    /\ Classified
    /\ \E f \in Range(mFiles) :
          /\ MultiMarker(f)
          /\ mCat.pressure = f
          /\ mCat.accum # f

(***************************************************************************)
(* Claims about extract_pressure_levels (SpecLevels).                      *)
(***************************************************************************)
LevelVars == {v \in Range(lDs.vars) : PL \in v.dims}

NamesFor(v) == {v.name \o ToString(lTargets[k]) : k \in 1..Len(lTargets)}

\* The lowest index whose distance dist[i] to the target is smallest.
FirstNearest(dist) ==
    CHOOSE i \in DOMAIN dist :
        /\ \A j \in DOMAIN dist : dist[i] <= dist[j]
        /\ \A j \in DOMAIN dist : j < i => dist[j] # dist[i]

\* Distance of each level to the target, by the level's value (in tenths).
ValueDistance(target) ==
    [i \in 1..Len(lDs.levels) |-> Abs(lDs.levels[i] - 10 * target)]

\* Distance of each level to the target, by the level's whole part.
WholeDistance(target) ==
    [i \in 1..Len(lDs.levels) |->
        Abs((lDs.levels[i] - (lDs.levels[i] % 10)) \div 10 - target)]

LevelsResult(count, Distance(_)) ==
    IF PL \in DsDims(lDs) /\ LevelVars # {}
    THEN /\ DOMAIN lOut = UNION {NamesFor(v) : v \in LevelVars}
         /\ \A v \in LevelVars :
               /\ Cardinality(NamesFor(v) \cap DOMAIN lOut) = count
               /\ \A k \in 1..Len(lTargets) :
                     LET out == lOut[v.name \o ToString(lTargets[k])]
                     IN /\ PL \notin out.dims
                        /\ out.dims = v.dims \ {PL}
                        /\ out.slice =
                               <<v.name, FirstNearest(Distance(lTargets[k]))>>
    ELSE lOut = EmptyDataset

\* C6 as stated: for N requested targets every pressure-level variable V
\* yields exactly N output variables named V{target}, each without the
\* pressure-level axis and equal to V's slice at the level whose value is
\* nearest the target, the lowest index winning a tie; with no pressure-level
\* axis or no variable on it the result is the empty dataset.
C6_OnePerTargetNearestValue ==
    lPc = "returned" => LevelsResult(Len(lTargets), ValueDistance)

\* C6 amended: one output variable per distinct requested target (N when the
\* targets are pairwise distinct), each the slice at the level whose value
\* cut to a whole number (astype(int)) is nearest the target, the lowest
\* index winning a tie.
C6_OnePerDistinctTargetNearestWhole ==
    lPc = "returned" =>
        LevelsResult(Cardinality(Range(lTargets)), WholeDistance)

\* C6 witness: two targets were extracted for a pressure-level variable and
\* two levels were equally near one of them.
C6_Witness ==
    /\ lPc = "returned"
    /\ LevelVars # {}
    /\ Len(lTargets) >= 2
    /\ \E k \in 1..Len(lTargets) : \E i, j \in 1..Len(lDs.levels) :
          /\ i < j
          /\ WholeDistance(lTargets[k])[i] = WholeDistance(lTargets[k])[j]
          /\ \A h \in 1..Len(lDs.levels) :
                WholeDistance(lTargets[k])[i] <= WholeDistance(lTargets[k])[h]
          /\ lOut["r" \o ToString(lTargets[k])].slice = <<"r", i>>

(***************************************************************************)
(* Claims about apply_unit_conversions (SpecUnits).                        *)
(***************************************************************************)
UnitsResult == uHeap[uDs]

Converted == {"t2m", "d2m", "u10", "v10"}

\* C9: when apply_unit_conversions has returned, the caller's dataset is
\* what it was before the call; the result has the same variables; t2m and
\* d2m, where present, are 273.15 lower with units and GRIB_units "C"; u10
\* and v10, where present, are 3.6 times the input with units and GRIB_units
\* "km/h"; every other variable is as in the input.
C9_InputIntactOnlyListedConverted ==
    uPc = "returned" =>
        /\ uHeap[uCaller] = uInput
        /\ DOMAIN UnitsResult = DOMAIN uInput
        /\ \A n \in DOMAIN uInput :
              LET in == uInput[n]
                  out == UnitsResult[n]
              IN /\ n \in {"t2m", "d2m"} =>
                       /\ out.value + 27315 = in.value
                       /\ out.units = "C" /\ out.GRIB_units = "C"
                 /\ n \in {"u10", "v10"} =>
                       /\ 10 * out.value = 36 * in.value
                       /\ out.units = "km/h" /\ out.GRIB_units = "km/h"
                 /\ n \notin Converted => out = in

\* C9 witness: a dataset holding a temperature at 300.00 K, a wind at
\* 10.00 m/s and a variable that is not converted has been converted.
C9_Witness ==
    /\ uPc = "returned"
    /\ {"t2m", "u10", "tp"} \subseteq DOMAIN uInput
    /\ "d2m" \notin DOMAIN uInput
    /\ uInput["t2m"].value = 30000 /\ UnitsResult["t2m"].value = 2685
    /\ uInput["u10"].value = 1000 /\ UnitsResult["u10"].value = 3600

(***************************************************************************)
(* Claims about select_variables (SpecSelect).                             *)
(***************************************************************************)
Requested == Range(sVarList)

SelectOutcome(present, holds) ==
    LET missing == Requested \ present
    IN /\ IF missing # {}
          THEN Len(sWarnings) = 1 /\ Range(sWarnings[1]) = missing
          ELSE sWarnings = <<>>
       /\ (sPc = "raised") <=> (present = {})
       /\ (sPc = "raised") => sErr = "ValueError"
       /\ (sPc = "returned") => holds

\* C8 as stated: the request is split against the dataset's data variables;
\* exactly one warning listing all missing names when one is missing and none
\* otherwise; the error exactly when no requested name is present; otherwise
\* the returned dataset's variables are exactly the present requested names.
C8_SplitAgainstDataVariables ==
    sPc # "call" =>
        SelectOutcome(Requested \cap DOMAIN sDs.data,
                      DOMAIN sOut.data = Requested \cap DOMAIN sDs.data)

\* C8 amended: the request is split against all variables of the dataset,
\* coordinates included; one warning listing all missing names when one is
\* missing and none otherwise; the error exactly when no requested name is
\* present; otherwise the returned dataset holds every present requested
\* name, its data variables are exactly the present requested data variables
\* and its coordinates are coordinates of the input.
C8_SplitAgainstAllVariables ==
    sPc # "call" =>
        LET present == Requested \cap (DOMAIN sDs.data \cup DOMAIN sDs.coords)
        IN SelectOutcome(present,
              /\ present \subseteq DOMAIN sOut.data \cup DOMAIN sOut.coords
              /\ DOMAIN sOut.data = Requested \cap DOMAIN sDs.data
              /\ DOMAIN sOut.coords \subseteq DOMAIN sDs.coords)

\* C8 witness: ["t2m", "missing_var"] was requested of a dataset whose only
\* data variable is t2m.
C8_Witness ==
    /\ sPc = "returned"
    /\ sVarList = <<"t2m", "missing_var">>
    /\ DOMAIN sDs.data = {"t2m"}
    /\ sWarnings = << <<"missing_var">> >>
    /\ DOMAIN sOut.data = {"t2m"}

(***************************************************************************)
(* Claims about store_year_month_day_nc (SpecSplit).                       *)
(***************************************************************************)
\* The calendar day a timestamp falls on, counted from the epoch date:
\* from 00:00 up to but excluding the next day's 00:00.
DayNo(t) == CHOOSE k \in 0..MaxDays : k * DayMs <= t /\ t < (k + 1) * DayMs

DaysPresent == {DayNo(t) : t \in Range(tTimes)}

\* <YYYY>/<MM>/<YYYYMMDD>.nc of the k-th day from the epoch date
ExpectedPath(k) ==
    LET dt == CHOOSE c \in [y : {tEpoch.y, tEpoch.y + 1},
                             m : {tEpoch.m, (tEpoch.m % 12) + 1}, d : 1..31] :
                  /\ c.d <= DaysInMonth(c.y, c.m)
                  /\ Ordinal(c) = Ordinal(tEpoch) + k
    IN <<Pad(dt.y, 4), Pad(dt.m, 2),
         Pad(dt.y, 4) \o Pad(dt.m, 2) \o Pad(dt.d, 2) \o <<".", "n", "c">> >>

\* C5: when store_year_month_day_nc has returned, there is exactly one file
\* per calendar date present, named <YYYY>/<MM>/<YYYYMMDD>.nc; each file holds
\* exactly the timestamps of its day (23:59:00 - 23:59:59.999 included); every
\* timestamp is in exactly one file; no file is empty.
C5_PartitionByCalendarDay ==
    tPc = "returned" =>
        /\ DOMAIN tFs = {ExpectedPath(k) : k \in DaysPresent}
        /\ Cardinality(DOMAIN tFs) = Cardinality(DaysPresent)
        /\ \A k \in DaysPresent :
              Range(tFs[ExpectedPath(k)]) = {t \in Range(tTimes) : DayNo(t) = k}
        /\ \A t \in Range(tTimes) :
              Cardinality({p \in DOMAIN tFs : t \in Range(tFs[p])}) = 1
        /\ \A p \in DOMAIN tFs : tFs[p] # <<>>

\* C5 witness: a dataset with a sample in the last minute of one day (after
\* 23:59:00) and samples on the next day, in another month, has been split in
\* two files.
C5_Witness ==
    /\ tPc = "returned"
    /\ tEpoch = [y |-> 2023, m |-> 1, d |-> 30]
    /\ tTimes = <<2 * DayMs - 1, 2 * DayMs, 2 * DayMs + HourMs>>
    /\ Cardinality(DOMAIN tFs) = 2
    /\ tFs[<< <<"2","0","2","3">>, <<"0","2">>,
              <<"2","0","2","3","0","2","0","1",".","n","c">> >>]
          = <<2 * DayMs, 2 * DayMs + HourMs>>

(***************************************************************************)
(* Claims about main and process_month (Spec).                             *)
(***************************************************************************)
Number(s) == ParseInt(s)

\* (year, month) of a before (year, month) of b
Earlier(a, b) ==
    \/ Number(a.year) < Number(b.year)
    \/ Number(a.year) = Number(b.year) /\ Number(a.month) < Number(b.month)

\* The month directories of the tree: <4 digits>/<0 or 1, digit>, a directory
MonthDirs ==
    {[year |-> e.year, month |-> e.month] :
        e \in {f \in gTree :
                 /\ f.isDir
                 /\ Len(f.year) = 4 /\ Len(f.month) = 2
                 /\ \A i \in 1..4 : f.year[i] \in Range(DigitChars)
                 /\ f.month[1] \in {"0", "1"}
                 /\ f.month[2] \in Range(DigitChars)}}

Logged == {gLog[i].month : i \in 1..Len(gLog)}

\* C1: the months found are the month directories of the tree in ascending
\* (year, month) order; process_month is called for them one by one in that
\* order, none twice and none left out at the end of the run; every month
\* that raised is logged once with its cause, every other attempted month ran
\* to its end, and a failure never ends the run.
C1_EachMonthOnceInOrder ==
    (gPc \notin {"main", "idle"} /\ gPreprocess) =>
        /\ Range(gFolders) = MonthDirs
        /\ \A i, j \in 1..Len(gFolders) : i < j => Earlier(gFolders[i], gFolders[j])
        /\ Len(gAttempts) <= Len(gFolders)
        /\ gAttempts = SubSeq(gFolders, 1, Len(gAttempts))
        /\ gPc = "end" => gAttempts = gFolders
        /\ \A i \in 1..Len(gLog) : gLog[i].cause # "none"
        /\ \A i, j \in 1..Len(gLog) : i < j => Earlier(gLog[i].month, gLog[j].month)
        /\ Logged \cap Range(gDone) = {}
        /\ gPc \in {"next", "end"} => Range(gAttempts) = Logged \cup Range(gDone)

\* C1 witness: the run has ended, the first of two months failed and was
\* logged, and the later month was still processed to its end.
C1_Witness ==
    /\ gPc = "end"
    /\ Len(gFolders) = 2
    /\ Len(gLog) = 1
    /\ gLog[1].month = gFolders[1]
    /\ gDone = <<gFolders[2]>>

StateOrder ==
    <<"Merging", "TimeNormalizing", "UnitConverting", "Selecting", "Splitting", "Done">>

\* C2: the steps a month has gone through are, in order, Merging,
\* TimeNormalizing, UnitConverting, Selecting, Splitting, Done: an initial
\* part of that list while the month runs or after it failed, and all of it
\* once the month is done.
C2_StepsInStatedOrder ==
    /\ Len(gTrace) <= Len(StateOrder)
    /\ gTrace = SubSeq(StateOrder, 1, Len(gTrace))

\* No coordinate named valid_time, no variable or axis named time, no
\* coordinate of date/time type.
NoTimeCoordinate(ds) ==
    /\ "valid_time" \notin DOMAIN ds.coords
    /\ "time" \notin DOMAIN ds.data \cup DOMAIN ds.coords
    /\ \A n \in DOMAIN ds.data : "time" \notin ds.data[n]
    /\ ds.datetime \cap DOMAIN ds.coords = {}

\* C7: a month whose merged dataset has no time coordinate fails with the
\* Missing-Time-Coordinate error of ensure_valid_time, with no daily file
\* written, and is logged with that cause.
C7_MissingTimeRaisedByNormalizer ==
    (gMerged # NoDs /\ NoTimeCoordinate(gMerged)) =>
        /\ gFs = gFsAtStart
        /\ gPc # "close"
        /\ gExc # "none" => gExc = ensure_valid_time(gMerged).err
        /\ (gPc = "next" /\ gExc # "none") =>
              gLog[Len(gLog)] = [month |-> gFolders[gIdx - 1],
                                 cause |-> "Dataset has no time coordinate"]

====
